---- MODULE Spec2Model ----
(***************************************************************************)
(* Model of the OVDP bond calculator engine (src/bond_utils.py).           *)
(*                                                                         *)
(* Representation.                                                         *)
(*   - A calendar date is an integer day number; normalize() is the        *)
(*     identity on it and (a - b).days is a - b.                           *)
(*   - A yield or coupon rate given in percent is held in basis points of  *)
(*     a percent (16.04 % is 1604); a returned price or amount, which the  *)
(*     code rounds to 2 decimals, is held in cents.                        *)
(*   - Unrounded values of the SIM formulas, of the accrued interest and   *)
(*     of the P&L ratios are exact rationals q + r/c (MulDivQR); Python's  *)
(*     round(x, 2) is RoundHalfEven on that rational.                      *)
(*   - The power (1+y)**t of the YTM and MinFin formulas is evaluated in   *)
(*     fixed point with 8 decimals (FP), amounts discounted with it in     *)
(*     thousandths of a cent (MC).                                         *)
(*     A YTM or MinFin price so evaluated agrees with the floating-point   *)
(*     evaluation to well within a cent; a value on or next to a rounding  *)
(*     tie is rounded half-even here, where float noise decides in the     *)
(*     code.                                                               *)
(*   - An exception is a result record [st |-> "error", err |-> ...].      *)
(***************************************************************************)
EXTENDS Integers, Sequences, FiniteSets, TLC

VARIABLES op, args, ret

vars == <<op, args, ret>>

(***************************************************************************)
(* Program constants.                                                      *)
(***************************************************************************)
SemiannualStep == 182
YearDays == 365
ShortDays == 182

(***************************************************************************)
(* Bounds of the model.                                                    *)
(***************************************************************************)
\* calculation dates are taken within MaxOff days of every schedule boundary
MaxOff == 2
\* ... and on every Stride-th day in between
Stride == 45
\* last day number a call may name
Horizon == 610

(***************************************************************************)
(* Arithmetic helpers.                                                     *)
(***************************************************************************)
Abs(x) == IF x < 0 THEN -x ELSE x
Max(a, b) == IF a >= b THEN a ELSE b
Min(a, b) == IF a <= b THEN a ELSE b

\* <<q, r>> with a * b = q * c + r and 0 <= r < c, for a, b >= 0 and c > 0,
\* computed so that no intermediate value leaves 32 bits:
\* b is taken digit by digit in the radix R, the largest of 256, 16, 4 and 2
\* for which (2 * R - 1) * c stays within 32 bits.
MulDivRadix(c) ==
  IF c < (2147483647 \div 511) THEN 256
  ELSE IF c < (2147483647 \div 31) THEN 16
  ELSE IF c < (2147483647 \div 7) THEN 4
  ELSE 2

RECURSIVE MulDivBy(_, _, _, _)
MulDivBy(a, b, c, R) ==
  IF b = 0 THEN <<0, 0>>
  ELSE LET h == MulDivBy(a, b \div R, c, R)
           t == R * h[2] + (a % c) * (b % R)
       IN <<R * h[1] + ((a \div c) * (b % R) + (t \div c)), t % c>>

MulDivQR(a, b, c) == MulDivBy(a, b, c, MulDivRadix(c))

\* Python round() of the non-negative rational q + r/c to an integer:
\* to nearest, a tie to the even neighbour.
RoundHalfEven(q, r, c) ==
  IF 2 * r < c THEN q
  ELSE IF 2 * r > c THEN q + 1
  ELSE IF q % 2 = 0 THEN q ELSE q + 1

\* round(a * b / c) for a, b >= 0, c > 0
RoundMulDiv(a, b, c) ==
  LET qr == MulDivQR(a, b, c) IN RoundHalfEven(qr[1], qr[2], c)

\* round(s * |a| * b / c) for b >= 0, c > 0 and a of either sign (round() is odd)
RoundSignedMulDiv(a, b, c) ==
  IF a >= 0 THEN RoundMulDiv(a, b, c) ELSE -RoundMulDiv(-a, b, c)

\* the elements of a finite set of integers in ascending order: sorted(set(...))
RECURSIVE SortedSeq(_)
SortedSeq(S) ==
  IF S = {} THEN <<>>
  ELSE LET m == CHOOSE x \in S : \A y \in S : x <= y
       IN <<m>> \o SortedSeq(S \ {m})

SeqSet(s) == {s[i] : i \in 1..Len(s)}

RECURSIVE SumSeq(_)
SumSeq(s) == IF s = <<>> THEN 0 ELSE Head(s) + SumSeq(Tail(s))

\* list.index(x): position of the first occurrence
IndexOf(s, x) == CHOOSE i \in 1..Len(s) : s[i] = x /\ \A j \in 1..(i - 1) : s[j] # x

\* [d for d in dates if d >= from_date]
FromDate(s, d0) == SelectSeq(s, LAMBDA d : d >= d0)

(***************************************************************************)
(* Fixed-point evaluation of base ** t for the YTM and MinFin formulas.    *)
(* FP is 1.0; every operand is >= 0.                                       *)
(***************************************************************************)
FP == 10000 * 10000
\* thousandths of a cent in one currency unit
MC == 100 * 1000

\* a * b / FP, by partial products (a <= FP or b <= FP)
FMul(a, b) ==
  LET a1 == a \div 10000
      a0 == a % 10000
      b1 == b \div 10000
      b0 == b % 10000
  IN a1 * b1 + ((a1 * b0) \div 10000) + ((a0 * b1) \div 10000) + ((a0 * b0) \div FP)

\* l * n / d for a fixed-point l and day counts n, d
ScaleBy(l, n, d) == (l \div d) * n + (((l % d) * n) \div d)

\* values beyond the representable range saturate here; past it only the
\* sign of a present-value difference is used
SatFP == 20 * FP
SatMC == 4000 * MC
Ln2 == 6931 * 10000 + 4718

Sat(x, cap) == IF x > cap THEN cap ELSE x

RECURSIVE LnSeries(_, _, _)
LnSeries(term, k, z2) ==
  IF term = 0 THEN 0 ELSE (term \div k) + LnSeries(FMul(term, z2), k + 2, z2)

\* ln(b) for a fixed-point b > 0: halve or double b into [FP/2, 2*FP], then
\* ln(b) = 2 * atanh((b - 1) / (b + 1))
RECURSIVE Ln(_)
Ln(b) ==
  IF b > 2 * FP THEN Ln2 + Ln(b \div 2)
  ELSE IF 2 * b < FP THEN Ln(2 * b) - Ln2
  ELSE LET z == MulDivQR(Abs(b - FP), FP, b + FP)[1]
           l == 2 * LnSeries(z, 1, FMul(z, z))
       IN IF b >= FP THEN l ELSE -l

RECURSIVE ExpNegSeries(_, _, _)
ExpNegSeries(term, k, x) ==
  IF term = 0 THEN 0 ELSE term - ExpNegSeries(FMul(term, x) \div k, k + 1, x)

\* exp(-x) for x >= 0
RECURSIVE ExpNeg(_)
ExpNeg(x) ==
  IF 2 * x > FP
  THEN LET h == ExpNeg(x \div 2) IN FMul(h, h)
  ELSE ExpNegSeries(FP, 1, x)

\* 1 / e for a fixed-point e in (0, 1], saturated
Inverse(e) == IF e * 20 <= FP THEN SatFP ELSE MulDivQR(FP, FP, e)[1]

\* exp(-l * n / d) for a fixed-point l of either sign
ExpScaled(l, n, d) ==
  IF l >= 0 THEN ExpNeg(ScaleBy(l, n, d)) ELSE Inverse(ExpNeg(ScaleBy(-l, n, d)))

\* base ** (n / d): compounding in place of discounting
CompoundFactor(base, n, d) == ExpScaled(-Ln(base), n, d)

\* 1 / base ** (n / d) for a fixed-point base > 0 and day counts n >= 0, d > 0
DiscountFactor(base, n, d) == ExpScaled(Ln(base), n, d)

\* amount * f for a fixed-point factor f >= 0, saturated
Times(amount_mc, f) ==
  IF f <= FP THEN FMul(amount_mc, f)
  ELSE Sat(FMul(amount_mc, FP) * (f \div FP) + FMul(amount_mc, f % FP), SatMC)

\* amount / base ** (n / d), in thousandths of a cent
Discounted(amount_mc, base, n, d) == Times(amount_mc, DiscountFactor(base, n, d))

\* round(x, 2) of an amount held in thousandths of a cent, in cents
RoundMC(x_mc) == RoundHalfEven(x_mc \div 1000, x_mc % 1000, 1000)

(***************************************************************************)
(* The bond directory handed to every operation (df).  A numeric cell is   *)
(* the set holding its value, the empty set when the cell is missing       *)
(* (NaN); PayDates are the cells of the "Термін сплати" columns.           *)
(***************************************************************************)
NaN == {}
notna(cell) == cell # {}
CellValue(cell) == CHOOSE v \in cell : TRUE

df ==
  [ZC |-> [Par_value |-> 1000, Currency |-> "UAH", Date_Issue |-> 100,
           Date_maturity |-> 284, Yield_nominal |-> NaN, Coupon_per_year |-> {2},
           PayDates |-> {}],
   SA |-> [Par_value |-> 1000, Currency |-> "UAH", Date_Issue |-> 40,
           Date_maturity |-> 600, Yield_nominal |-> {1600}, Coupon_per_year |-> {2},
           PayDates |-> {}],
   MO |-> [Par_value |-> 1000, Currency |-> "USD", Date_Issue |-> 200,
           Date_maturity |-> 300, Yield_nominal |-> {1604}, Coupon_per_year |-> {12},
           PayDates |-> {}],
   XP |-> [Par_value |-> 1000, Currency |-> "UAH", Date_Issue |-> 100,
           Date_maturity |-> 500, Yield_nominal |-> {1000}, Coupon_per_year |-> {1},
           PayDates |-> {135, 500}]]

Isins == {"ZC", "SA", "MO", "XP", "NONE"}

Err(e) == [st |-> "error", err |-> e]
NotFound == "ValueError: ISIN not found"
CalcAfterMaturity == "ValueError: calc date >= maturity"
SellNotAfterBuy == "ValueError: sell date must be after buy date"
ZeroDivision == "ZeroDivisionError"
TypeError == "TypeError: unexpected keyword argument"
IndexError == "IndexError: single positional indexer is out-of-bounds"

(***************************************************************************)
(* Coupon helpers.                                                         *)
(***************************************************************************)
extract_coupon_dates_from_row(b) == SortedSeq(b.PayDates)

\* variant that runs until a date at or before issue_date is in the list
fallback_loop_passes_to_boundary(issue_date, maturity_date, step_days) ==
  IF maturity_date >= issue_date
  THEN (maturity_date - issue_date + step_days - 1) \div step_days + 1 ELSE 0

\* the loop of _fallback_coupon_dates: d runs from maturity_date down by
\* step_days while d >= issue_date, each d put at the front of the list;
\* passes is the number of times the loop body runs
fallback_loop_passes(issue_date, maturity_date, step_days) ==
  IF maturity_date >= issue_date THEN (maturity_date - issue_date) \div step_days + 1
  ELSE 0

fallback_coupon_dates_by(maturity_date, step_days, passes) ==
  [i \in 1..passes |-> maturity_date - (passes - i) * step_days]

\* variant without the semiannual case, the year's days rounded up
fallback_step_days_rounded_up(freq) == Max(1, (YearDays + 1) \div freq)

\* step_days = 182 if freq == 2 else max(1, 365 // freq)
fallback_step_days(freq) ==
  IF freq = 2 THEN SemiannualStep ELSE Max(1, YearDays \div freq)

\* variant counting forward from the issue date instead of back from maturity
fallback_coupon_dates_from_issue(issue_date, maturity_date, freq) ==
  [i \in 1..fallback_loop_passes(issue_date, maturity_date, fallback_step_days(freq)) |->
     issue_date + (i - 1) * fallback_step_days(freq)]

fallback_coupon_dates(issue_date, maturity_date, freq) ==
  fallback_coupon_dates_by(maturity_date, fallback_step_days(freq),
                           fallback_loop_passes(issue_date, maturity_date,
                                                fallback_step_days(freq)))

RowFound(isin) == isin \in DOMAIN df

\* the parameters and coupon dates read from the row b of a bond
params_of_row(b) ==
  LET maturity == b.Date_maturity
      issue == b.Date_Issue
      freq == IF notna(b.Coupon_per_year) THEN CellValue(b.Coupon_per_year) ELSE 0
      extracted == extract_coupon_dates_from_row(b)
      dates1 == IF Len(extracted) < 2
                THEN fallback_coupon_dates(issue, maturity, IF freq # 0 THEN freq ELSE 2)
                ELSE extracted
      dates2 == IF maturity \notin SeqSet(dates1)
                THEN SortedSeq(SeqSet(dates1) \cup {maturity})
                ELSE dates1
  IN [st |-> "ok", dates |-> dates2, par |-> b.Par_value, ccy |-> b.Currency,
      crbp |-> IF notna(b.Yield_nominal) THEN CellValue(b.Yield_nominal) ELSE 0,
      freq |-> freq, issue |-> issue, maturity |-> maturity]

\* variant without the row.empty test: row.iloc[0] of an empty selection
\* raises IndexError
full_coupon_schedule_and_params_unchecked(isin) ==
  IF ~RowFound(isin) THEN Err(IndexError) ELSE params_of_row(df[isin])

full_coupon_schedule_and_params(isin) ==
  IF ~RowFound(isin) THEN Err(NotFound) ELSE params_of_row(df[isin])

\* is_coupon, and the coupon-per-period SD = par * cr / freq
is_coupon(p) == p.crbp > 0 /\ p.freq > 0

\* SD in thousandths of a cent
SD_mc(p) == (p.par * p.crbp * 10) \div p.freq

(***************************************************************************)
(* Accrued interest.                                                       *)
(***************************************************************************)
\* the current coupon period of calc_date: <<prev_coupon, KDP0>>, for a
\* non-empty future = [d for d in dates if d >= calc_date]
\* <<prev_coupon, KDP0>> once prev_coupon is known
period_from(p, prev_coupon, next_coupon) ==
  <<prev_coupon,
    IF next_coupon - prev_coupon <= 0 THEN Max(1, YearDays \div p.freq)
    ELSE next_coupon - prev_coupon>>

\* variant that takes next_coupon itself for prev_coupon
prev_coupon_at_next(p, dates, idx_next) == dates[idx_next]

\* prev_coupon for the position idx_next of next_coupon in dates
prev_coupon_at(p, dates, idx_next) ==
  IF idx_next = 1
  THEN dates[1] - (IF Len(dates) >= 2 THEN dates[2] - dates[1]
                   ELSE Max(1, YearDays \div p.freq))
  ELSE dates[idx_next - 1]

current_period(p, future) ==
  period_from(p, prev_coupon_at(p, p.dates, IndexOf(p.dates, future[1])), future[1])

\* variant of the clamp that lets a negative elapsed through
clamp_elapsed_upper_only(elapsed, KDP0) == Min(elapsed, KDP0)

\* elapsed = min(max(elapsed, 0), KDP0)
clamp_elapsed(elapsed, KDP0) == Min(Max(elapsed, 0), KDP0)

\* AI in cents, for the parameters p of a bond that was found
\* round(SD * (elapsed / KDP0), 2) in the period cp = <<prev_coupon, KDP0>>
accrued_in_period(calc_date, p, cp) ==
  RoundSignedMulDiv(clamp_elapsed(calc_date - cp[1], cp[2]), p.par * p.crbp,
                    100 * p.freq * cp[2])

accrued_interest_of(calc_date, p) ==
  IF p.crbp <= 0 \/ p.freq <= 0 THEN 0
  ELSE IF FromDate(p.dates, calc_date) = <<>> THEN 0
  ELSE accrued_in_period(calc_date, p, current_period(p, FromDate(p.dates, calc_date)))

\* accrued_interest past the bond lookup that ended as p
accrued_interest_result(calc_date, p) ==
  IF p.st = "error" THEN p
  ELSE [st |-> "ok", AI |-> accrued_interest_of(calc_date, p)]

accrued_interest(calc_date, isin) ==
  accrued_interest_result(calc_date, full_coupon_schedule_and_params(isin))

(***************************************************************************)
(* Forward pricing: yield -> price.                                        *)
(***************************************************************************)
NoFormula == "-"   \* the label the code writes as an em dash

\* the returned tuple (dirty, AI, clean, currency, formula_name)
PriceResult(dirty, ai, clean, ccy, formula) ==
  [st |-> "ok", dirty |-> dirty, ai |-> ai, clean |-> clean, ccy |-> ccy,
   formula |-> formula]

\* variant on a 360-day year
SimDenBankYear(ybp, days) == 360 * 10000 + ybp * days

\* (1 + y * days / 365) * 3650000 for y = ybp / 10000
SimDen(ybp, days) == YearDays * 10000 + ybp * days

\* par / (1 + y * days / 365) in cents, as <<q, r, c>> meaning q + r/c
sim_discount_price(p, ybp, days) ==
  LET c == SimDen(ybp, days)
      qr == MulDivQR(p.par * 100, YearDays * 10000, c)
  IN <<qr[1], qr[2], c>>

\* (par + SD) / (1 + y * days / 365) in cents, as <<q, r, c>>
sim_coupon_price(p, ybp, days) ==
  LET c == p.freq * SimDen(ybp, days)
      qr == MulDivQR(p.par * (10000 * p.freq + p.crbp), YearDays * 100, c)
  IN <<qr[1], qr[2], c>>

\* variant with days_to_mty < 182
short_or_last_strict(p, future, days_to_mty) ==
  (days_to_mty < ShortDays) \/ (Len(future) = 1 /\ future[1] = p.maturity)

\* short_or_last of a coupon bond
short_or_last(p, future, days_to_mty) ==
  (days_to_mty <= ShortDays) \/ (Len(future) = 1 /\ future[1] = p.maturity)

RECURSIVE SumSat(_)
SumSat(s) == IF s = <<>> THEN 0 ELSE Sat(Head(s) + SumSat(Tail(s)), SatMC)

\* sum of SD / (1+y)**t over future, plus par / (1+y)**T, in thousandths of
\* a cent, for y = y_fp / FP
ytm_total(p, future, calc_date, y_fp) ==
  LET base == FP + y_fp
      cps == [i \in 1..Len(future) |->
                Discounted(SD_mc(p), base, future[i] - calc_date, YearDays)]
  IN Sat(SumSat(cps)
         + Discounted(p.par * MC, base, p.maturity - calc_date, YearDays), SatMC)

\* sum of SD / DF over future, plus par / DF at maturity, with
\* DF = (1 + y/freq) ** (DD / KDP0), in thousandths of a cent
minfin_total(p, future, calc_date, KDP0, y_fp) ==
  LET base == FP + (y_fp \div p.freq)
      cfs == [i \in 1..Len(future) |->
                Sat(Discounted(SD_mc(p), base, future[i] - calc_date, KDP0)
                    + (IF future[i] = p.maturity
                       THEN Discounted(p.par * MC, base, future[i] - calc_date, KDP0)
                       ELSE 0), SatMC)]
  IN SumSat(cfs)

\* the result for a price held as the rational x = <<q, r, c>> and an
\* accrued interest ai: round(price, 2), ai, round(price - ai, 2)
SimResult(x, ai, ccy) ==
  PriceResult(RoundHalfEven(x[1], x[2], x[3]), ai,
              RoundHalfEven(x[1] - ai, x[2], x[3]), ccy, "SIM")

\* the result for a price already rounded: price, ai, round(price - ai, 2)
RoundedResult(price, ai, ccy, formula) ==
  PriceResult(price, ai, price - ai, ccy, formula)

\* secondary_price_from_yield of a coupon bond before maturity
secondary_coupon_price(calc_date, p, ybp, future) ==
  IF short_or_last(p, future, p.maturity - calc_date)
  THEN SimResult(sim_coupon_price(p, ybp, p.maturity - calc_date),
                 accrued_interest_of(calc_date, p), p.ccy)
  ELSE RoundedResult(RoundMC(ytm_total(p, future, calc_date, ybp * 10000)),
                     accrued_interest_of(calc_date, p), p.ccy, "YTM")

\* secondary_price_from_yield past the bond lookup that ended as p
secondary_price_of(calc_date, p, ybp) ==
  IF p.st = "error" THEN p
  ELSE IF calc_date >= p.maturity THEN PriceResult(0, 0, 0, p.ccy, NoFormula)
  ELSE IF ~is_coupon(p)
  THEN SimResult(sim_discount_price(p, ybp, p.maturity - calc_date), 0, p.ccy)
  ELSE secondary_coupon_price(calc_date, p, ybp, FromDate(p.dates, calc_date))

secondary_price_from_yield(calc_date, isin, ybp) ==
  secondary_price_of(calc_date, full_coupon_schedule_and_params(isin), ybp)

\* primary_price_from_yield_minfin of a coupon bond before maturity
primary_coupon_price(calc_date, p, ybp, future) ==
  IF future = <<>> THEN PriceResult(0, 0, 0, p.ccy, "MinFin")
  ELSE RoundedResult(RoundMC(minfin_total(p, future, calc_date,
                                          current_period(p, future)[2], ybp * 10000)),
                     accrued_interest_of(calc_date, p), p.ccy, "MinFin")

\* primary_price_from_yield_minfin past the bond lookup that ended as p
primary_price_of(calc_date, p, ybp) ==
  IF p.st = "error" THEN p
  ELSE IF calc_date >= p.maturity THEN PriceResult(0, 0, 0, p.ccy, NoFormula)
  ELSE IF ~is_coupon(p)
  THEN SimResult(sim_discount_price(p, ybp, p.maturity - calc_date), 0, p.ccy)
  ELSE primary_coupon_price(calc_date, p, ybp, FromDate(p.dates, calc_date))

primary_price_from_yield_minfin(calc_date, isin, ybp) ==
  primary_price_of(calc_date, full_coupon_schedule_and_params(isin), ybp)

(***************************************************************************)
(* Root finder.  A function handed to it is a record fn; EvalFn(fn, y) is  *)
(* its value at y, in thousandths of a cent, y in fixed point.             *)
(***************************************************************************)
bracket_expand_num == 3      \* expand = 1.5 = 3 / 2
bracket_max_tries == 25
bisect_maxiter == 200
\* tol = 1e-12 is below the fixed-point resolution: the smallest positive value
solve_tol == 1
solve_lo == -99 * 1000000    \* -0.99
solve_hi == 5 * FP           \* 5.0
pre_bracket_tries == 20
ClampY == -9999 * 10000      \* -0.9999

SameSign(a, b) == (a > 0 /\ b > 0) \/ (a < 0 /\ b < 0)
OppositeSign(a, b) == (a > 0 /\ b < 0) \/ (a < 0 /\ b > 0)

\* pv_diff_y and pv_diff_minfin of yields_from_price
EvalFn(fn, y) ==
  IF fn.kind = "pv_diff_y"
  THEN ytm_total(fn.p, fn.future, fn.calc_date, Max(y, ClampY)) - fn.price_dirty * 1000
  ELSE minfin_total(fn.p, fn.future, fn.calc_date, fn.KDP0, y) - fn.price_dirty * 1000

\* hi * 1.5, held within the fixed-point range
Expand(hi) ==
  IF hi \div 2 >= (SatFP - FP) \div bracket_expand_num THEN SatFP - FP
  ELSE (hi \div 2) * bracket_expand_num

RECURSIVE bracket_loop(_, _, _, _, _, _)
bracket_loop(fn, lo, hi, f_lo, f_hi, tries) ==
  IF SameSign(f_lo, f_hi) /\ tries < bracket_max_tries
  THEN bracket_loop(fn, lo, Expand(hi), f_lo, EvalFn(fn, Expand(hi)), tries + 1)
  ELSE <<lo, hi, f_lo, f_hi>>

bracket(fn, lo, hi) == bracket_loop(fn, lo, hi, EvalFn(fn, lo), EvalFn(fn, hi), 0)

RECURSIVE bisect_loop(_, _, _, _, _, _, _)
\* one iteration of the loop of _bisect, with mid and f_mid = func(mid).  An
\* interval one fixed-point unit wide cannot be halved at this resolution: the
\* halvings the code still makes (until hi - lo < tol) stay inside it, at mid.
bisect_step(fn, lo, hi, f_lo, f_hi, tol, left, mid, f_mid) ==
  IF Abs(f_mid) < tol \/ (hi - lo) < tol \/ (hi - lo) <= 1 THEN mid
  ELSE IF OppositeSign(f_lo, f_mid)
  THEN bisect_loop(fn, lo, mid, f_lo, f_mid, tol, left - 1)
  ELSE bisect_loop(fn, mid, hi, f_mid, f_hi, tol, left - 1)

\* the loop of _bisect with left iterations to go; 0.5 * (lo + hi) after it
bisect_loop(fn, lo, hi, f_lo, f_hi, tol, left) ==
  IF left = 0 THEN (lo + hi) \div 2
  ELSE bisect_step(fn, lo, hi, f_lo, f_hi, tol, left,
                   (lo + hi) \div 2, EvalFn(fn, (lo + hi) \div 2))

bisect(fn, lo, hi, f_lo, f_hi, tol, maxiter) ==
  IF f_lo = 0 THEN lo
  ELSE IF f_hi = 0 THEN hi
  ELSE bisect_loop(fn, lo, hi, f_lo, f_hi, tol, maxiter)

\* _solve_root past its _bracket call, b = <<lo, hi, f_lo, f_hi>>
solve_bracketed(fn, b, tol, maxiter) ==
  IF SameSign(b[3], b[4]) THEN (b[1] + b[2]) \div 2
  ELSE bisect(fn, b[1], b[2], b[3], b[4], tol, maxiter)

solve_root(fn, lo, hi, tol, maxiter) ==
  solve_bracketed(fn, bracket(fn, lo, hi), tol, maxiter)

\* the parameters _solve_root declares
solve_root_params == {"func", "lo", "hi", "tol", "maxiter"}

\* a call _solve_root(func, lo, hi, **kwargs): Python binds the keywords to the
\* declared parameters before the body runs, and raises TypeError on a keyword
\* the function does not declare
solve_root_call(fn, lo, hi, kwargs) ==
  IF \E k \in DOMAIN kwargs : k \notin solve_root_params
  THEN Err(TypeError)
  ELSE [st |-> "ok",
        root |-> solve_root(fn, lo, hi,
                            IF "tol" \in DOMAIN kwargs THEN kwargs["tol"] ELSE solve_tol,
                            IF "maxiter" \in DOMAIN kwargs THEN kwargs["maxiter"]
                            ELSE bisect_maxiter)]

\* the keywords yields_from_price passes: maxiter=200, xtol=1e-12
yields_solver_kwargs == [maxiter |-> bisect_maxiter, xtol |-> solve_tol]

\* for _ in range(20): stop at a sign change, else hi *= 1.5
RECURSIVE pre_bracket_hi(_, _, _, _)
pre_bracket_hi(fn, lo, hi, left) ==
  IF left = 0 \/ OppositeSign(EvalFn(fn, lo), EvalFn(fn, hi)) THEN hi
  ELSE pre_bracket_hi(fn, lo, Expand(hi), left - 1)

(***************************************************************************)
(* Price -> yields.                                                        *)
(***************************************************************************)
\* round(((par + SD) / price_dirty - 1) * (365 / days) * 100, 2), in basis points
sim_yield(p, price_dirty, days) ==
  IF is_coupon(p)
  THEN RoundSignedMulDiv(p.par * (10000 * p.freq + p.crbp) - 100 * p.freq * price_dirty,
                         YearDays * 100, price_dirty * p.freq * days)
  ELSE RoundSignedMulDiv(p.par * 100 - price_dirty, YearDays * 10000, price_dirty * days)

\* round(y_root * 100, 2), in basis points
root_yield(y_fp) == RoundSignedMulDiv(y_fp, 1, 10000)

\* the try/except around one _solve_root call that ended as r:
\* <<yield, formula>>
root_or_fallback(r, p, price_dirty, days_to_mty, label) ==
  IF r.st = "ok" THEN <<root_yield(r.root), label>>
  ELSE <<sim_yield(p, price_dirty, days_to_mty), "SIM (fallback)">>

\* the search for hi, then the try/except around the _solve_root call
solved_or_fallback(fn, p, price_dirty, days_to_mty, label) ==
  root_or_fallback(
    solve_root_call(fn, solve_lo,
                    pre_bracket_hi(fn, solve_lo, solve_hi, pre_bracket_tries),
                    yields_solver_kwargs),
    p, price_dirty, days_to_mty, label)

\* the dictionary yields_from_price returns
YieldsResult(sec, prim, ccy) ==
  [st |-> "ok", Secondary_yield |-> sec[1], Secondary_formula |-> sec[2],
   Primary_yield |-> prim[1], Primary_formula |-> prim[2], Currency |-> ccy]

\* the two yields of a coupon bond, fn holding what pv_diff_y and
\* pv_diff_minfin close over
coupon_yields(fn, p, price_dirty, days_to_mty) ==
  YieldsResult(
    IF short_or_last(p, fn.future, days_to_mty)
    THEN <<sim_yield(p, price_dirty, days_to_mty), "SIM">>
    ELSE solved_or_fallback([fn EXCEPT !.kind = "pv_diff_y"],
                            p, price_dirty, days_to_mty, "YTM"),
    solved_or_fallback([fn EXCEPT !.kind = "pv_diff_minfin"],
                       p, price_dirty, days_to_mty, "MinFin"),
    p.ccy)

\* yields_from_price past the bond lookup that ended as p
yields_from_price_of(calc_date, p, price_dirty) ==
  IF p.st = "error" THEN p
  ELSE IF calc_date >= p.maturity THEN Err(CalcAfterMaturity)
  ELSE IF price_dirty = 0 THEN Err(ZeroDivision)
  ELSE IF ~is_coupon(p)
  THEN YieldsResult(<<sim_yield(p, price_dirty, p.maturity - calc_date), "SIM">>,
                    <<sim_yield(p, price_dirty, p.maturity - calc_date), "SIM">>, p.ccy)
  ELSE coupon_yields([kind |-> "", p |-> p, future |-> FromDate(p.dates, calc_date),
                      calc_date |-> calc_date,
                      KDP0 |-> current_period(p, FromDate(p.dates, calc_date))[2],
                      price_dirty |-> price_dirty],
                     p, price_dirty, p.maturity - calc_date)

yields_from_price(calc_date, isin, price_dirty) ==
  yields_from_price_of(calc_date, full_coupon_schedule_and_params(isin), price_dirty)

(***************************************************************************)
(* Cashflow schedule, coupons of a holding period, trade outcome.          *)
(***************************************************************************)
\* d.strftime(fmt): the text of a date in the given format
strftime(d, fmt) == [fmt |-> fmt, day |-> d]

Coupon == "Coupon"
Redemption == "Redemption"

\* variant of the sort key with the tie at one date broken the other way
RowKeyRedemptionFirst(r) == 2 * r.date + (IF r.type # Coupon THEN 0 ELSE 1)

\* the sort key (date, 0 for a coupon row, 1 otherwise) as one integer
RowKey(r) == 2 * r.date + (IF r.type # Coupon THEN 1 ELSE 0)

\* list.sort(key=...): stable insertion by key
RECURSIVE SortRows(_)
SortRows(rows) ==
  IF rows = <<>> THEN <<>>
  ELSE LET rest == SortRows(Tail(rows))
           r == Head(rows)
           before == SelectSeq(rest, LAMBDA x : RowKey(x) < RowKey(r))
           after == SelectSeq(rest, LAMBDA x : RowKey(x) >= RowKey(r))
       IN before \o <<r>> \o after

\* drop_duplicates: the first occurrence of every row
RECURSIVE DropDuplicates(_)
DropDuplicates(rows) ==
  IF rows = <<>> THEN <<>>
  ELSE LET init == DropDuplicates(SubSeq(rows, 1, Len(rows) - 1))
           r == rows[Len(rows)]
       IN IF r \in SeqSet(init) THEN init ELSE Append(init, r)

NoDate == -1 - Horizon   \* from_date=None

build_cashflow_schedule(isin, from_date) ==
  LET p == full_coupon_schedule_and_params(isin)
  IN IF p.st = "error" THEN p
     ELSE LET coupon_amount == IF p.crbp > 0 /\ p.freq > 0
                               THEN RoundMulDiv(p.par * p.crbp, 1, 100 * Max(1, p.freq))
                               ELSE 0
              dates == IF from_date # NoDate THEN FromDate(p.dates, from_date) ELSE p.dates
              coupons == IF coupon_amount > 0
                         THEN [i \in 1..Len(dates) |->
                                 [date |-> dates[i], amount |-> coupon_amount,
                                  type |-> Coupon, currency |-> p.ccy]]
                         ELSE <<>>
              rows == Append(coupons, [date |-> p.maturity, amount |-> p.par * 100,
                                       type |-> Redemption, currency |-> p.ccy])
              out == DropDuplicates(SortRows(rows))
          IN [st |-> "ok",
              out |-> [i \in 1..Len(out) |->
                         [out[i] EXCEPT !.date = strftime(out[i].date, "%d/%m/%Y")]],
              coupon_rate |-> p.crbp, ccy |-> p.ccy]

coupons_between(isin, start_date, end_date) ==
  LET p == full_coupon_schedule_and_params(isin)
  IN IF p.st = "error" THEN p
     ELSE IF p.crbp <= 0 \/ p.freq <= 0 THEN [st |-> "ok", out |-> <<>>, ccy |-> p.ccy]
     ELSE LET SD == RoundMulDiv(p.par * p.crbp, 1, 100 * p.freq)
              inside == SelectSeq(p.dates, LAMBDA d : start_date < d /\ d <= end_date)
          IN [st |-> "ok",
              out |-> [i \in 1..Len(inside) |-> <<strftime(inside[i], "%d/%m/%Y"), SD>>],
              ccy |-> p.ccy]

\* Profit_ann_pct is the set holding the value; None is the empty set
None == {}

\* the dictionary trade_outcome returns
TradeResult(isin, buy_date, buy_yield_percent, sell_date, sell_yield_percent, buy, sell, cps, coupons_total, profit_abs, days_held) ==
  [st |-> "ok", ISIN |-> isin, Currency |-> buy.ccy,
   Buy |-> [date |-> strftime(buy_date, "%Y-%m-%d"),
            yield_percent |-> buy_yield_percent, price_dirty |-> buy.dirty],
   Sell |-> [date |-> strftime(sell_date, "%Y-%m-%d"),
             yield_percent |-> sell_yield_percent, price_dirty |-> sell.dirty],
   Coupons_received |-> cps,
   Coupons_total |-> coupons_total,
   Profit_abs |-> profit_abs,
   Profit_ann_pct |->
     IF days_held > 0
     THEN {RoundSignedMulDiv(profit_abs, YearDays * 10000, buy.dirty * days_held)}
     ELSE None,
   Days_held |-> days_held]

\* trade_outcome once both prices buy, sell and the coupons cps are there
trade_profit(isin, buy_date, buy_yield_percent, sell_date, sell_yield_percent, buy, sell, cps, coupons_total) ==
  IF sell_date - buy_date > 0 /\ buy.dirty = 0 THEN Err(ZeroDivision)
  ELSE TradeResult(isin, buy_date, buy_yield_percent, sell_date, sell_yield_percent,
                   buy, sell, cps, coupons_total,
                   sell.dirty + coupons_total - buy.dirty, sell_date - buy_date)

\* trade_outcome past its three calls, which ended as buy, sell and cb
trade_priced(isin, buy_date, buy_yield_percent, sell_date, sell_yield_percent, buy, sell, cb) ==
  IF buy.st = "error" THEN buy
  ELSE IF sell.st = "error" THEN sell
  ELSE IF cb.st = "error" THEN cb
  ELSE trade_profit(isin, buy_date, buy_yield_percent, sell_date, sell_yield_percent,
                    buy, sell, cb.out,
                    SumSeq([i \in 1..Len(cb.out) |-> cb.out[i][2]]))

\* trade_outcome past its date test
trade_body(isin, buy_date, buy_yield_percent, sell_date, sell_yield_percent) ==
  trade_priced(isin, buy_date, buy_yield_percent, sell_date, sell_yield_percent,
               secondary_price_from_yield(buy_date, isin, buy_yield_percent),
               secondary_price_from_yield(sell_date, isin, sell_yield_percent),
               coupons_between(isin, buy_date, sell_date))

\* variant of the date test that lets equal dates through
trade_outcome_same_day(isin, buy_date, buy_yield_percent, sell_date, sell_yield_percent) ==
  IF sell_date < buy_date THEN Err(SellNotAfterBuy)
  ELSE trade_body(isin, buy_date, buy_yield_percent, sell_date, sell_yield_percent)

trade_outcome(isin, buy_date, buy_yield_percent, sell_date, sell_yield_percent) ==
  IF sell_date <= buy_date THEN Err(SellNotAfterBuy)
  ELSE trade_body(isin, buy_date, buy_yield_percent, sell_date, sell_yield_percent)

(***************************************************************************)
(* The state machine: one call of a public operation.  Init draws the call *)
(* and its arguments, the operation's action computes what it returns.     *)
(***************************************************************************)
NotCalled == [st |-> "none"]

YieldsBp == {0, 950, 1000, 1001, 1500, 1600}
TradeYieldsBp == {950, 1000}

Boundaries(isin) ==
  IF RowFound(isin)
  THEN SeqSet(full_coupon_schedule_and_params(isin).dates) \cup {df[isin].Date_Issue}
  ELSE {Horizon \div 2}

\* calculation dates per ISIN: near a boundary, or on the stride
CalcDates ==
  [i \in Isins |->
     LET B == Boundaries(i)
     IN {d \in 0..Horizon : (d % Stride = 0) \/ (\E g \in B : Abs(d - g) <= MaxOff)}]

\* trade dates per ISIN: near a boundary
TradeDates ==
  [i \in Isins |->
     LET B == Boundaries(i)
     IN {d \in 0..Horizon : \E g \in B : Abs(d - g) <= MaxOff}]

DateCalls == UNION {{[calc_date |-> d, isin |-> i] : d \in CalcDates[i]} : i \in Isins}

PriceCalls ==
  {[calc_date |-> c.calc_date, isin |-> c.isin, yield_percent |-> y] :
     c \in DateCalls, y \in YieldsBp}

PricesDirty == {0, 95000, 100000, 104000}

YieldCalls ==
  {[calc_date |-> c.calc_date, isin |-> c.isin, price_dirty |-> pd] :
     c \in DateCalls, pd \in PricesDirty}

Markets == {"Secondary", "Primary"}

RoundTripCalls ==
  {[calc_date |-> c.calc_date, isin |-> c.isin, yield_percent |-> y, market |-> m] :
     c \in DateCalls, y \in YieldsBp \ {0}, m \in Markets}

ScheduleCalls ==
  {[isin |-> c.isin, from_date |-> c.calc_date] : c \in DateCalls}
  \cup {[isin |-> i, from_date |-> NoDate] : i \in Isins}

WindowCalls ==
  UNION {{[isin |-> i, start_date |-> a, end_date |-> b] :
            a \in TradeDates[i], b \in TradeDates[i]} : i \in Isins}

TradeCalls ==
  {[isin |-> w.isin, buy_date |-> w.start_date, buy_yield_percent |-> yb,
    sell_date |-> w.end_date, sell_yield_percent |-> ys] :
     w \in WindowCalls, yb \in TradeYieldsBp, ys \in TradeYieldsBp}

Init ==
  /\ ret = NotCalled
  /\ \/ op = "build_cashflow_schedule" /\ args \in ScheduleCalls
     \/ op = "accrued_interest" /\ args \in DateCalls
     \/ op = "secondary_price_from_yield" /\ args \in PriceCalls
     \/ op = "primary_price_from_yield_minfin" /\ args \in PriceCalls
     \/ op = "yields_from_price" /\ args \in YieldCalls
     \/ op = "round_trip" /\ args \in RoundTripCalls
     \/ op = "coupons_between" /\ args \in WindowCalls
     \/ op = "trade_outcome" /\ args \in TradeCalls

BuildCashflowSchedule ==
  /\ op = "build_cashflow_schedule" /\ ret = NotCalled
  /\ ret' = build_cashflow_schedule(args.isin, args.from_date)
  /\ UNCHANGED <<op, args>>

AccruedInterest ==
  /\ op = "accrued_interest" /\ ret = NotCalled
  /\ ret' = accrued_interest(args.calc_date, args.isin)
  /\ UNCHANGED <<op, args>>

SecondaryPriceFromYield ==
  /\ op = "secondary_price_from_yield" /\ ret = NotCalled
  /\ ret' = secondary_price_from_yield(args.calc_date, args.isin, args.yield_percent)
  /\ UNCHANGED <<op, args>>

PrimaryPriceFromYieldMinfin ==
  /\ op = "primary_price_from_yield_minfin" /\ ret = NotCalled
  /\ ret' = primary_price_from_yield_minfin(args.calc_date, args.isin, args.yield_percent)
  /\ UNCHANGED <<op, args>>

YieldsFromPrice ==
  /\ op = "yields_from_price" /\ ret = NotCalled
  /\ ret' = yields_from_price(args.calc_date, args.isin, args.price_dirty)
  /\ UNCHANGED <<op, args>>

\* a caller prices at a yield and feeds the dirty price back to yields_from_price
round_trip_result(fwd, inv) ==
  IF inv.st = "error" THEN inv ELSE [st |-> "ok", forward |-> fwd, inverse |-> inv]

\* the forward price fwd handed back to yields_from_price
round_trip_back(calc_date, isin, fwd) ==
  IF fwd.st = "error" THEN fwd
  ELSE round_trip_result(fwd, yields_from_price(calc_date, isin, fwd.dirty))

round_trip(calc_date, isin, ybp, market) ==
  round_trip_back(calc_date, isin,
                  IF market = "Secondary"
                  THEN secondary_price_from_yield(calc_date, isin, ybp)
                  ELSE primary_price_from_yield_minfin(calc_date, isin, ybp))

RoundTrip ==
  /\ op = "round_trip" /\ ret = NotCalled
  /\ ret' = round_trip(args.calc_date, args.isin, args.yield_percent, args.market)
  /\ UNCHANGED <<op, args>>

CouponsBetween ==
  /\ op = "coupons_between" /\ ret = NotCalled
  /\ ret' = coupons_between(args.isin, args.start_date, args.end_date)
  /\ UNCHANGED <<op, args>>

TradeOutcome ==
  /\ op = "trade_outcome" /\ ret = NotCalled
  /\ ret' = trade_outcome(args.isin, args.buy_date, args.buy_yield_percent,
                          args.sell_date, args.sell_yield_percent)
  /\ UNCHANGED <<op, args>>

Next ==
  \/ BuildCashflowSchedule
  \/ AccruedInterest
  \/ SecondaryPriceFromYield
  \/ PrimaryPriceFromYieldMinfin
  \/ YieldsFromPrice
  \/ RoundTrip
  \/ CouponsBetween
  \/ TradeOutcome

Spec == Init /\ [][Next]_vars

(***************************************************************************)
(* The helpers called on their own: _solve_root on the functions that      *)
(* yields_from_price builds, _fallback_coupon_dates on bare dates.         *)
(***************************************************************************)
\* pv_diff_y or pv_diff_minfin as yields_from_price closes it over a bond
\* found as p, a calculation date and a dirty price
pv_diff(kind, calc_date, p, future, price_dirty) ==
  [kind |-> kind, p |-> p, future |-> future, calc_date |-> calc_date,
   KDP0 |-> current_period(p, future)[2], price_dirty |-> price_dirty]

pv_diff_of(kind, calc_date, p, price_dirty) ==
  pv_diff(kind, calc_date, p, FromDate(p.dates, calc_date), price_dirty)

SolverKinds == {"pv_diff_y", "pv_diff_minfin"}
SolverIsins == {"SA", "MO", "XP"}
SolverLos == {solve_lo, 0}
SolverHis == {2 * 10000, 5 * 10000, solve_hi}
SolverMaxiters == {bisect_maxiter, bisect_maxiter \div 40}

SolverCalls ==
  {[kind |-> k, isin |-> i, calc_date |-> df[i].Date_Issue + off, price_dirty |-> pd,
    lo |-> lo, hi |-> hi, maxiter |-> m] :
     k \in SolverKinds, i \in SolverIsins, off \in {0, Stride}, pd \in PricesDirty,
     lo \in SolverLos, hi \in SolverHis, m \in SolverMaxiters}

FallbackIssues == {0, 40, 72, 100}
FallbackMaturities == {600, 800, 3700}
FallbackFreqs == {1, 2, 4, 12}

FallbackCalls ==
  {[issue_date |-> a, maturity_date |-> b, freq |-> f] :
     a \in FallbackIssues, b \in FallbackMaturities, f \in FallbackFreqs}

HelperInit ==
  /\ ret = NotCalled
  /\ \/ op = "_solve_root" /\ args \in SolverCalls
     \/ op = "_fallback_coupon_dates" /\ args \in FallbackCalls

\* the function the call names
SolverFn ==
  pv_diff_of(args.kind, args.calc_date, full_coupon_schedule_and_params(args.isin),
             args.price_dirty)

\* _solve_root(func, lo, hi, maxiter=m) runs loop iteration by loop iteration;
\* while it runs ret is its frame: the line it is at and its local variables
Running(pc, lo, hi, f_lo, f_hi, tries, left) ==
  [st |-> "running", pc |-> pc, lo |-> lo, hi |-> hi, f_lo |-> f_lo, f_hi |-> f_hi,
   tries |-> tries, left |-> left]

\* what a call that returned leaves: the root, with the number of bracket
\* expansions and of bisection steps it made
Returned(root, expansions, bisections) ==
  [st |-> "ok", root |-> root, expansions |-> expansions, bisections |-> bisections]

\* variant returning the upper end of the bracket
midpoint_upper(lo, hi) == hi

\* 0.5 * (lo + hi)
midpoint(lo, hi) == (lo + hi) \div 2

\* _solve_root calls _bracket, which evaluates func at both ends
SolveRootCall ==
  /\ op = "_solve_root" /\ ret = NotCalled
  /\ ret' = Running("bracket", args.lo, args.hi,
                    EvalFn(SolverFn, args.lo), EvalFn(SolverFn, args.hi),
                    0, args.maxiter)
  /\ UNCHANGED <<op, args>>

\* one pass of the while loop of _bracket
BracketExpand ==
  /\ op = "_solve_root" /\ ret.st = "running" /\ ret.pc = "bracket"
  /\ SameSign(ret.f_lo, ret.f_hi) /\ ret.tries < bracket_max_tries
  /\ ret' = [ret EXCEPT !.hi = Expand(@), !.f_hi = EvalFn(SolverFn, Expand(ret.hi)),
                        !.tries = @ + 1]
  /\ UNCHANGED <<op, args>>

\* _bracket has returned the frame s: the midpoint fallback of _solve_root, or
\* the entry of _bisect
after_bracket(s) ==
  IF SameSign(s.f_lo, s.f_hi) THEN Returned(midpoint(s.lo, s.hi), s.tries, 0)
  ELSE IF s.f_lo = 0 THEN Returned(s.lo, s.tries, 0)
  ELSE IF s.f_hi = 0 THEN Returned(s.hi, s.tries, 0)
  ELSE [s EXCEPT !.pc = "bisect"]

BracketReturn ==
  /\ op = "_solve_root" /\ ret.st = "running" /\ ret.pc = "bracket"
  /\ ~(SameSign(ret.f_lo, ret.f_hi) /\ ret.tries < bracket_max_tries)
  /\ ret' = after_bracket(ret)
  /\ UNCHANGED <<op, args>>

\* variant that moves the other end of the interval to mid
bisect_pass_other_end(s, tol, made, mid, f_mid) ==
  IF Abs(f_mid) < tol \/ (s.hi - s.lo) < tol \/ (s.hi - s.lo) <= 1
  THEN Returned(mid, s.tries, made)
  ELSE IF OppositeSign(s.f_lo, f_mid)
  THEN [s EXCEPT !.lo = mid, !.f_lo = f_mid, !.left = @ - 1]
  ELSE [s EXCEPT !.hi = mid, !.f_hi = f_mid, !.left = @ - 1]

\* one pass of the for loop of _bisect in the frame s, with mid and
\* f_mid = func(mid); made counts this pass.  As in bisect_step, an interval
\* one fixed-point unit wide is not halved further.
bisect_pass(s, tol, made, mid, f_mid) ==
  IF Abs(f_mid) < tol \/ (s.hi - s.lo) < tol \/ (s.hi - s.lo) <= 1
  THEN Returned(mid, s.tries, made)
  ELSE IF OppositeSign(s.f_lo, f_mid)
  THEN [s EXCEPT !.hi = mid, !.f_hi = f_mid, !.left = @ - 1]
  ELSE [s EXCEPT !.lo = mid, !.f_lo = f_mid, !.left = @ - 1]

BisectStep ==
  /\ op = "_solve_root" /\ ret.st = "running" /\ ret.pc = "bisect"
  /\ ret.left > 0
  /\ ret' = bisect_pass(ret, solve_tol, args.maxiter - ret.left + 1,
                        midpoint(ret.lo, ret.hi),
                        EvalFn(SolverFn, midpoint(ret.lo, ret.hi)))
  /\ UNCHANGED <<op, args>>

\* the for loop of _bisect ran out: return 0.5 * (lo + hi)
BisectExhausted ==
  /\ op = "_solve_root" /\ ret.st = "running" /\ ret.pc = "bisect"
  /\ ret.left = 0
  /\ ret' = Returned(midpoint(ret.lo, ret.hi), ret.tries, args.maxiter)
  /\ UNCHANGED <<op, args>>

FallbackCouponDates ==
  /\ op = "_fallback_coupon_dates" /\ ret = NotCalled
  /\ ret' = [st |-> "ok",
             dates |-> fallback_coupon_dates(args.issue_date, args.maturity_date, args.freq)]
  /\ UNCHANGED <<op, args>>

HelperNext ==
  \/ SolveRootCall
  \/ BracketExpand
  \/ BracketReturn
  \/ BisectStep
  \/ BisectExhausted
  \/ FallbackCouponDates

HelperSpec == HelperInit /\ [][HelperNext]_vars

(***************************************************************************)
(* Properties.                                                             *)
(***************************************************************************)
\* the operation o has returned (a result or an exception)
Called(o) == op = o /\ ret.st # "none"

MaturityOf(isin) == df[isin].Date_maturity

\* a trade on a listed bond, bought before maturity and sold at or after it
TradeSpansMaturity ==
  /\ Called("trade_outcome") /\ RowFound(args.isin)
  /\ args.buy_date < MaturityOf(args.isin)
  /\ MaturityOf(args.isin) <= args.sell_date

\* C1: a trade_outcome with buyDate < maturityDate <= sellDate counts the
\* redemption of par at maturity among the received cashflows, so that
\* Coupons_total (and with it Profit_abs) includes the par repayment.
C1_RedemptionAmongReceived ==
  (TradeSpansMaturity /\ ret.st = "ok") =>
    LET M == MaturityOf(args.isin)
        par_cents == df[args.isin].Par_value * 100
    IN /\ \E i \in 1..Len(ret.Coupons_received) :
            ret.Coupons_received[i] = <<strftime(M, "%d/%m/%Y"), par_cents>>
       /\ ret.Coupons_total >= par_cents
       /\ ret.Profit_abs >= ret.Sell.price_dirty - ret.Buy.price_dirty + par_cents

\* the events of the bond's cashflow schedule dated in (buy_date, sell_date],
\* as (date, amount) pairs
ScheduleEventsBetween(isin, buy_date, sell_date) ==
  LET rows == build_cashflow_schedule(isin, NoDate).out
      inside == SelectSeq(rows, LAMBDA r : buy_date < r.date.day /\ r.date.day <= sell_date)
  IN [i \in 1..Len(inside) |-> <<inside[i].date, inside[i].amount>>]

\* the arithmetic identities of a returned TradeOutcome
TradeIdentities ==
  (Called("trade_outcome") /\ ret.st = "ok") =>
    /\ ret.Profit_abs = ret.Sell.price_dirty - ret.Buy.price_dirty + ret.Coupons_total
    /\ ret.Profit_ann_pct =
         {RoundSignedMulDiv(ret.Profit_abs, YearDays * 10000,
                            ret.Buy.price_dirty * ret.Days_held)}
    /\ ret.Coupons_total =
         SumSeq([i \in 1..Len(ret.Coupons_received) |-> ret.Coupons_received[i][2]])

\* C2: every returned TradeOutcome has Profit_abs = Sell.price_dirty -
\* Buy.price_dirty + Coupons_total and Profit_ann_pct = (Profit_abs /
\* Buy.price_dirty) * (365 / Days_held) * 100 to 2 decimals, Coupons_total
\* being the sum of Coupons_received, and Coupons_received being exactly the
\* schedule events d with buyDate < d <= sellDate.
C2_TradeOutcomeIdentities ==
  /\ TradeIdentities
  /\ (Called("trade_outcome") /\ ret.st = "ok") =>
       ret.Coupons_received =
         ScheduleEventsBetween(args.isin, args.buy_date, args.sell_date)

\* C3: trade_outcome with sellDate <= buyDate raises the date error before any
\* pricing or bond lookup (so also for an ISIN that is not listed), and every
\* TradeOutcome returned has Days_held = sellDate - buyDate > 0.
C3_SellAfterBuy ==
  Called("trade_outcome") =>
    /\ (args.sell_date <= args.buy_date) => ret = Err(SellNotAfterBuy)
    /\ (ret.st = "ok") =>
         /\ ret.Days_held = args.sell_date - args.buy_date
         /\ ret.Days_held > 0

\* the date error won over the lookup of an unlisted ISIN
C3_Witness ==
  /\ Called("trade_outcome") /\ ~RowFound(args.isin)
  /\ args.sell_date = args.buy_date
  /\ ret = Err(SellNotAfterBuy)

PricingOps ==
  {"secondary_price_from_yield", "primary_price_from_yield_minfin", "yields_from_price"}

\* C4: pricing requested at a reference date at or after maturity is rejected
\* with an error and no price result: in secondary_price_from_yield,
\* primary_price_from_yield_minfin, yields_from_price, and for the buy date and
\* the sell date inside trade_outcome.
C4_RejectedAtOrAfterMaturity ==
  /\ (op \in PricingOps /\ ret.st # "none" /\ RowFound(args.isin)
      /\ args.calc_date >= MaturityOf(args.isin)) => ret.st = "error"
  /\ (Called("trade_outcome") /\ RowFound(args.isin)
      /\ args.sell_date > args.buy_date
      /\ (args.buy_date >= MaturityOf(args.isin)
          \/ args.sell_date >= MaturityOf(args.isin))) => ret.st = "error"

EngineOps ==
  {"build_cashflow_schedule", "accrued_interest", "secondary_price_from_yield",
   "primary_price_from_yield_minfin", "yields_from_price", "coupons_between",
   "trade_outcome"}

\* C5: every public operation (trade_outcome with valid dates) called with an
\* ISIN absent from the bond table fails with the not-found error and returns
\* no result.
C5_UnknownIsinNotFound ==
  (op \in EngineOps /\ ret.st # "none" /\ ~RowFound(args.isin)
   /\ (op = "trade_outcome" => args.sell_date > args.buy_date))
    => ret = Err(NotFound)

C5_Witness ==
  /\ Called("trade_outcome") /\ ~RowFound(args.isin)
  /\ args.sell_date > args.buy_date
  /\ ret = Err(NotFound)

\* the parameters of the bond the call names
ParamsOfCall == full_coupon_schedule_and_params(args.isin)

\* a pricing call on a listed bond at a reference date before maturity
PricedBeforeMaturity(o) ==
  /\ Called(o) /\ RowFound(args.isin)
  /\ args.calc_date < MaturityOf(args.isin)

\* the number of schedule dates that remain at calc_date, counting calc_date
\* itself or not
Remaining(p, calc_date, counting_today) ==
  Cardinality({d \in SeqSet(p.dates) :
                 d > calc_date \/ (counting_today /\ d = calc_date)})

C7_RoundTrip ==
  (PricedBeforeMaturity("round_trip")
   /\ 100 < args.yield_percent /\ args.yield_percent < 10000) =>
    /\ ret.st = "ok"
    /\ LET y == IF args.market = "Secondary" THEN ret.inverse.Secondary_yield
                ELSE ret.inverse.Primary_yield
       IN Abs(y - args.yield_percent) <= 25

\* the present-value difference functions yields_from_price builds for the call
PvDiff(kind) ==
  LET p == ParamsOfCall
      future == FromDate(p.dates, args.calc_date)
  IN [kind |-> kind, p |-> p, future |-> future, calc_date |-> args.calc_date,
      KDP0 |-> current_period(p, future)[2], price_dirty |-> args.price_dirty]

\* the function changes sign over the search domain (-0.99, 5.0)
YieldInDomain(fn) == OppositeSign(EvalFn(fn, solve_lo), EvalFn(fn, solve_hi))

\* C8: for a coupon bond with at least two future coupon dates and more than
\* 182 days to maturity, and a dirty price whose yield lies inside the search
\* domain (-0.99, 5.0), yields_from_price gets the secondary yield from the
\* root finder on the YTM formula and the primary yield from the root finder on
\* the MinFin formula, labels them 'YTM' and 'MinFin', and does not take the
\* 'SIM (fallback)' branch.
C8_RootFinderLabels ==
  (/\ PricedBeforeMaturity("yields_from_price")
   /\ is_coupon(ParamsOfCall)
   /\ Remaining(ParamsOfCall, args.calc_date, FALSE) >= 2
   /\ MaturityOf(args.isin) - args.calc_date > ShortDays
   /\ args.price_dirty > 0
   /\ YieldInDomain(PvDiff("pv_diff_y"))
   /\ YieldInDomain(PvDiff("pv_diff_minfin"))) =>
    /\ ret.st = "ok"
    /\ ret.Secondary_formula = "YTM"
    /\ ret.Primary_formula = "MinFin"
    /\ ret.Secondary_yield =
         root_yield(solve_root(PvDiff("pv_diff_y"), solve_lo, solve_hi,
                               solve_tol, bisect_maxiter))
    /\ ret.Primary_yield =
         root_yield(solve_root(PvDiff("pv_diff_minfin"), solve_lo, solve_hi,
                               solve_tol, bisect_maxiter))

PriceOps == {"secondary_price_from_yield", "primary_price_from_yield_minfin"}

\* q + r/c in thousandths, rounded down
Thousandths(x) == x[1] * 1000 + MulDivQR(x[2], 1000, x[3])[1]

\* the dirty price of the call before any rounding, in thousandths of a cent
UnroundedDirty ==
  LET p == ParamsOfCall
      days == p.maturity - args.calc_date
      future == FromDate(p.dates, args.calc_date)
      y_fp == args.yield_percent * 10000
  IN IF ~is_coupon(p) THEN Thousandths(sim_discount_price(p, args.yield_percent, days))
     ELSE IF op = "primary_price_from_yield_minfin"
     THEN minfin_total(p, future, args.calc_date, current_period(p, future)[2], y_fp)
     ELSE IF short_or_last(p, future, days)
     THEN Thousandths(sim_coupon_price(p, args.yield_percent, days))
     ELSE ytm_total(p, future, args.calc_date, y_fp)

\* SD * elapsed / KDP0 before rounding, in thousandths of a cent
UnroundedAccrued ==
  LET p == ParamsOfCall
      future == FromDate(p.dates, args.calc_date)
      cp == current_period(p, future)
  IN IF ~is_coupon(p) THEN 0
     ELSE MulDivQR(p.par * p.crbp * 10, clamp_elapsed(args.calc_date - cp[1], cp[2]),
                   p.freq * cp[2])[1]

\* what the fixed-point evaluation leaves open about an unrounded amount: a
\* fiftieth of a cent either way
Slack == MC \div 5000

\* C10: every result of secondary_price_from_yield and
\* primary_price_from_yield_minfin has clean = dirty - AI with the subtraction
\* made on the unrounded dirty price and the unrounded accrued interest, and
\* the rounding to 2 decimals applied to the returned values only: the clean
\* price returned is the unrounded difference rounded.
C10_CleanFromUnrounded ==
  (op \in PriceOps /\ PricedBeforeMaturity(op)) =>
    LET d == UnroundedDirty - UnroundedAccrued
    IN /\ ret.st = "ok"
       /\ RoundMC(d - Slack) <= ret.clean
       /\ ret.clean <= RoundMC(d + Slack)

\* the day numbers of the rows of a returned cashflow schedule
ScheduleDays == {ret.out[i].date.day : i \in 1..Len(ret.out)}

\* a cashflow schedule was returned for a listed bond
ScheduleReturned ==
  Called("build_cashflow_schedule") /\ RowFound(args.isin) /\ ret.st = "ok"

SemiannualGenerated(isin) ==
  /\ df[isin].Coupon_per_year = {2}
  /\ Cardinality(df[isin].PayDates) < 2

ScheduleBeforeMaturity ==
  /\ ScheduleReturned
  /\ (args.from_date = NoDate \/ args.from_date <= MaturityOf(args.isin))

\* the positions of the rows dated at maturity
RowsAtMaturity == {i \in 1..Len(ret.out) : ret.out[i].date.day = MaturityOf(args.isin)}

RedemptionRow(i) ==
  /\ ret.out[i].type = Redemption
  /\ ret.out[i].date = strftime(MaturityOf(args.isin), "%d/%m/%Y")
  /\ ret.out[i].amount = df[args.isin].Par_value * 100

RECURSIVE ExpandedHi(_, _)
ExpandedHi(hi, k) == IF k = 0 THEN hi ELSE Expand(ExpandedHi(hi, k - 1))

SolveRootReturned == op = "_solve_root" /\ ret.st \notin {"none", "running"}

\* f(lo) and f(hi) have the same sign at the call and after each of the
\* bracket_max_tries expansions
NoSignChange ==
  \A k \in 0..bracket_max_tries :
    SameSign(EvalFn(SolverFn, args.lo), EvalFn(SolverFn, ExpandedHi(args.hi, k)))

\* C13: when f(lo) and f(hi) still have the same sign after the expansion
\* retries are used up, _solve_root does not raise and returns the midpoint
\* 0.5 * (lo + hi) of the final bracket: lo the caller's lo, hi the caller's hi
\* multiplied by 1.5 once per retry.
C13_MidpointFallback ==
  (SolveRootReturned /\ NoSignChange) =>
    /\ ret.st = "ok"
    /\ ret.root = (args.lo + ExpandedHi(args.hi, bracket_max_tries)) \div 2

\* a call whose function never changes sign, with every expansion inside the
\* fixed-point range
C13_Witness ==
  /\ SolveRootReturned /\ NoSignChange
  /\ args.lo = solve_lo
  /\ ExpandedHi(args.hi, bracket_max_tries) < SatFP - FP
  /\ ExpandedHi(args.hi, bracket_max_tries) > ExpandedHi(args.hi, bracket_max_tries - 1)

FallbackReturned == op = "_fallback_coupon_dates" /\ ret.st = "ok"

\* the iteration cap the specification gives the date loop as a safety bound
CouponLoopCap == 12 * 10

\* C14: every loop of the engine has a hard bound on its iterations: the
\* backward coupon-date loop runs at most CouponLoopCap times whatever the
\* dates, a _solve_root call makes at most bracket_max_tries bracket expansions
\* and at most bisect_maxiter bisection steps before it returns.
C14_LoopsHardBounded ==
  /\ FallbackReturned =>
       fallback_loop_passes(args.issue_date, args.maturity_date,
                            fallback_step_days(args.freq)) <= CouponLoopCap
  /\ (op = "_solve_root" /\ ret.st = "running") =>
       /\ ret.tries <= bracket_max_tries
       /\ args.maxiter - ret.left <= bisect_maxiter
  /\ SolveRootReturned =>
       /\ ret.expansions <= bracket_max_tries
       /\ ret.bisections <= bisect_maxiter

\* secondary_price_from_yield on the zero-coupon bond of par 1000, 184 days
\* before its maturity, at a yield of 15 %
ZeroCouponAt15 ==
  /\ Called("secondary_price_from_yield") /\ args.isin = "ZC"
  /\ df["ZC"].Par_value = 1000 /\ ~notna(df["ZC"].Yield_nominal)
  /\ MaturityOf("ZC") - args.calc_date = 184
  /\ args.yield_percent = 1500

\* C15: for a zero-coupon bond with par 1000, 184 days to maturity and a
\* yield of 15 %, the secondary SIM dirty price 1000 / (1 + 0.15 * 184 / 365)
\* rounded to 2 decimals is 927.52.
C15_ZeroCouponPrice ==
  ZeroCouponAt15 => (ret.st = "ok" /\ ret.formula = "SIM" /\ ret.dirty = 92752)

\* C15, amended: the same price is 929.70.
C15_ZeroCouponPriceIs92970 ==
  ZeroCouponAt15 => (ret.st = "ok" /\ ret.formula = "SIM" /\ ret.dirty = 92970)

C15_Witness == ZeroCouponAt15 /\ ret.st = "ok" /\ ret.ai = 0 /\ ret.clean = ret.dirty

\* the positions of the generated dates after the date ref
FutureAfter(ref) == {i \in 1..Len(ret.dates) : ret.dates[i] > ref}

\* the dates of a semiannual bond, read 730 days before its maturity (from
\* 2025-06-01 to 2027-06-01 there are 730 days)
SemiannualTwoYears == FallbackReturned /\ args.freq = 2

TwoYearsBefore == args.maturity_date - 730

FutureSpaced(ref, n) ==
  /\ Cardinality(FutureAfter(ref)) = n
  /\ \A i \in FutureAfter(ref) :
       i < Len(ret.dates) => ret.dates[i + 1] - ret.dates[i] = 182
  /\ ret.dates[Len(ret.dates)] = args.maturity_date

\* C16: for a semiannual coupon bond with maturity 2027-06-01 priced at the
\* reference date 2025-06-01 the schedule has exactly 4 dates after the
\* reference date, consecutive ones 182 days apart, the last the maturity date.
C16_FourFutureDates == SemiannualTwoYears => FutureSpaced(TwoYearsBefore, 4)

\* C16, amended: for such a bond issued on or before the reference date the
\* schedule has exactly 5 dates after the reference date (the first 2 days
\* after it), consecutive ones 182 days apart, the last the maturity date.
C16_FiveFutureDates ==
  (SemiannualTwoYears /\ args.issue_date <= TwoYearsBefore) =>
    /\ FutureSpaced(TwoYearsBefore, 5)
    /\ \E i \in FutureAfter(TwoYearsBefore) : ret.dates[i] = TwoYearsBefore + 2

C16_Witness ==
  /\ SemiannualTwoYears /\ args.issue_date <= TwoYearsBefore
  /\ args.issue_date < TwoYearsBefore - 182
  /\ Cardinality(FutureAfter(TwoYearsBefore)) < Len(ret.dates)

\* the forward formula of the call evaluated for the same bond and reference
\* date at another yield
PriceAt(ybp) ==
  IF op = "secondary_price_from_yield"
  THEN secondary_price_from_yield(args.calc_date, args.isin, ybp)
  ELSE primary_price_from_yield_minfin(args.calc_date, args.isin, ybp)

\* a forward pricing call that returned a price, before maturity
ForwardPriced ==
  /\ op \in PriceOps /\ PricedBeforeMaturity(op) /\ ret.st = "ok"

\* the yields of the grid above the yield of the call
HigherYields == {y \in YieldsBp : y > args.yield_percent}

OnCouponDate ==
  /\ Called("accrued_interest") /\ RowFound(args.isin)
  /\ is_coupon(ParamsOfCall)
  /\ args.calc_date < MaturityOf(args.isin)
  /\ \E i \in 1..Len(ParamsOfCall.dates) : ParamsOfCall.dates[i] = args.calc_date

\* C18: in accrued_interest the next coupon is the earliest schedule date
\* strictly after the calculation date and the previous coupon the latest
\* schedule date at or before it: when the calculation date is a coupon date
\* earlier than maturity, the elapsed days are 0 and the accrued interest
\* returned is 0.
C18_ZeroOnCouponDate ==
  OnCouponDate => ret.st = "ok" /\ ret.AI = 0

\* the operations that take a calculation date
CalcDateOps ==
  {"accrued_interest", "secondary_price_from_yield", "primary_price_from_yield_minfin",
   "yields_from_price"}

\* an operation built the generated schedule of a listed bond (its row names
\* fewer than two payment dates) for a reference date before maturity
GeneratedBeforeMaturity ==
  /\ op \in CalcDateOps /\ ret.st # "none" /\ RowFound(args.isin)
  /\ Cardinality(df[args.isin].PayDates) < 2
  /\ args.calc_date < MaturityOf(args.isin)

\* sorted ascending without duplicates, the last date being maturity
AscendingToMaturity(dates, maturity) ==
  /\ Len(dates) >= 1 /\ dates[Len(dates)] = maturity
  /\ \A i \in 1..(Len(dates) - 1) : dates[i] < dates[i + 1]

\* the step of the generated schedule of the call
StepOfCall == fallback_step_days(IF ParamsOfCall.freq # 0 THEN ParamsOfCall.freq ELSE 2)

\* C19: schedule generation starts at the maturity date and subtracts the step
\* until a generated date is at or before the reference date, that boundary
\* date included: for every reference date before maturity the schedule is
\* sorted ascending without duplicates, ends at maturity, and contains a date
\* <= the reference date.
C19_ReachesReferenceDate ==
  GeneratedBeforeMaturity =>
    /\ AscendingToMaturity(ParamsOfCall.dates, ParamsOfCall.maturity)
    /\ \E i \in 1..Len(ParamsOfCall.dates) : ParamsOfCall.dates[i] <= args.calc_date

\* C19 (amended): generation stops once a generated date is before the issue
\* date, that date excluded: for every reference date before maturity the
\* schedule is sorted ascending without duplicates, ends at maturity, starts
\* less than one step after the issue date and never before it, and contains a
\* date <= the reference date when the reference date is at least one step
\* after the issue date.
C19_ReachesIssueDate ==
  GeneratedBeforeMaturity =>
    /\ AscendingToMaturity(ParamsOfCall.dates, ParamsOfCall.maturity)
    /\ ParamsOfCall.dates[1] >= ParamsOfCall.issue
    /\ ParamsOfCall.dates[1] < ParamsOfCall.issue + StepOfCall
    /\ args.calc_date >= ParamsOfCall.issue + StepOfCall =>
         \E i \in 1..Len(ParamsOfCall.dates) : ParamsOfCall.dates[i] <= args.calc_date

\* a schedule of several dates, the reference date more than a step after the
\* issue date and past the first generated date
C19_Witness ==
  /\ GeneratedBeforeMaturity
  /\ Len(ParamsOfCall.dates) >= 3
  /\ args.calc_date >= ParamsOfCall.issue + StepOfCall
  /\ ParamsOfCall.dates[1] > ParamsOfCall.issue
  /\ ParamsOfCall.dates[1] < args.calc_date

\* the operations that divide by the coupon period length KDP0
PeriodOps == {"accrued_interest", "primary_price_from_yield_minfin", "yields_from_price"}

\* one of them was called for a coupon bond before maturity, so that the
\* current period is looked up and KDP0 divides
PeriodUsed ==
  /\ op \in PeriodOps /\ PricedBeforeMaturity(op)
  /\ is_coupon(ParamsOfCall)
  /\ (op = "yields_from_price" => args.price_dirty # 0)

\* <<prev_coupon, KDP0>> of the call
PeriodOfCall == current_period(ParamsOfCall, FromDate(ParamsOfCall.dates, args.calc_date))

\* next_coupon of the call
NextOfCall == FromDate(ParamsOfCall.dates, args.calc_date)[1]

\* the reference date precedes the first boundary of the schedule
BeforeFirstBoundary == args.calc_date <= ParamsOfCall.dates[1]

\* C20: the coupon period length KDP0 that accrued_interest,
\* primary_price_from_yield_minfin and yields_from_price divide by is always
\* strictly positive: it is the next boundary minus the previous boundary (the
\* previous boundary being the next minus one step when the reference date
\* precedes the first generated boundary), replaced by the nominal length when
\* that difference is <= 0, and the call ends without an error.
C20_PeriodPositive ==
  PeriodUsed =>
    /\ PeriodOfCall[2] > 0
    /\ PeriodOfCall[2] = NextOfCall - PeriodOfCall[1]
    /\ BeforeFirstBoundary =>
         PeriodOfCall[1] = NextOfCall - (ParamsOfCall.dates[2] - ParamsOfCall.dates[1])
    /\ ret.st = "ok"

\* a price from the MinFin formula for a reference date before the first
\* boundary, the previous boundary one step before the next
C20_Witness ==
  /\ PeriodUsed /\ op = "primary_price_from_yield_minfin"
  /\ args.calc_date < ParamsOfCall.dates[1]
  /\ PeriodOfCall[2] = ParamsOfCall.dates[2] - ParamsOfCall.dates[1]
  /\ ret.st = "ok" /\ ret.formula = "MinFin"

\* the coupon dates a secondary price at calc_date discounts:
\* future = [d for d in dates if d >= calc_date]
DiscountedAt(calc_date) == SeqSet(FromDate(ParamsOfCall.dates, calc_date))

\* the dates of the coupons a returned trade outcome lists as received
ReceivedDays == {ret.Coupons_received[i][1].day : i \in 1..Len(ret.Coupons_received)}

\* a trade of a coupon bond, bought and sold before maturity and priced by the
\* YTM formula at both dates
TradeByYtm ==
  /\ Called("trade_outcome") /\ ret.st = "ok" /\ RowFound(args.isin)
  /\ is_coupon(ParamsOfCall)
  /\ args.buy_date < args.sell_date /\ args.sell_date < MaturityOf(args.isin)
  /\ secondary_price_from_yield(args.buy_date, args.isin, args.buy_yield_percent).formula = "YTM"
  /\ secondary_price_from_yield(args.sell_date, args.isin, args.sell_yield_percent).formula = "YTM"

\* C21: cashflow conservation in trade_outcome.  For a coupon bond priced by
\* YTM at both dates with buyDate < sellDate < maturity, the coupon dates
\* discounted in the buy dirty price are the disjoint union of the coupon dates
\* in Coupons_received and the coupon dates discounted in the sell dirty price:
\* no coupon, one dated on the buy date or on the sell date included, is
\* dropped or counted twice in Profit_abs.
C21_CashflowConservation ==
  TradeByYtm =>
    /\ DiscountedAt(args.buy_date) = ReceivedDays \cup DiscountedAt(args.sell_date)
    /\ ReceivedDays \cap DiscountedAt(args.sell_date) = {}

\* _solve_root is inside the for loop of _bisect
BisectRunning == op = "_solve_root" /\ ret.st = "running" /\ ret.pc = "bisect"

\* the interval of the running _bisect is a bracket of a sign change
BisectBracketed ==
  BisectRunning => ret.lo < ret.hi /\ OppositeSign(ret.f_lo, ret.f_hi)

\* a pass of the loop that does not return moves one end to the midpoint: the
\* new interval lies in the old one and is half as wide (to the fixed-point
\* unit the midpoint is rounded by)
BisectHalves ==
  (BisectRunning /\ ret'.st = "running") =>
    /\ ret.lo <= ret'.lo /\ ret'.hi <= ret.hi
    /\ ret'.lo = ret.lo \/ ret'.hi = ret.hi
    /\ Abs(2 * (ret'.hi - ret'.lo) - (ret.hi - ret.lo)) <= 1

\* a pass of the loop that returns, returns a value of the current interval
BisectReturnsInside ==
  (BisectRunning /\ ret'.st = "ok") => ret.lo <= ret'.root /\ ret'.root <= ret.hi

\* _bracket ended with a sign change between f(lo) and f(hi)
SignChangeFound ==
  OppositeSign(EvalFn(SolverFn, args.lo),
               EvalFn(SolverFn, ExpandedHi(args.hi, ret.expansions)))

\* the root _solve_root returned lies in the bracket _bracket returned
RootInBracket ==
  (SolveRootReturned /\ ret.st = "ok" /\ SignChangeFound) =>
    /\ args.lo <= ret.root
    /\ ret.root <= ExpandedHi(args.hi, ret.expansions)

\* C22: when _bisect is entered with lo < hi and f(lo) * f(hi) < 0, every
\* iteration keeps lo < hi and f(lo) * f(hi) < 0 with the bracket width halved,
\* and the value returned lies within the initial interval [lo, hi]: when
\* _bracket found a sign change, _solve_root returns a value inside the bracket
\* that _bracket returned.
C22_BisectKeepsBracket ==
  /\ [](BisectBracketed /\ RootInBracket)
  /\ [][BisectHalves /\ BisectReturnsInside]_vars

\* a root strictly inside the bracket, returned after ten or more halvings
C22_Witness ==
  /\ SolveRootReturned /\ ret.st = "ok" /\ SignChangeFound
  /\ ret.bisections >= 10
  /\ args.lo < ret.root /\ ret.root < ExpandedHi(args.hi, ret.expansions)

====
